---- MODULE Spec2Model ----
(***************************************************************************)
(* Reactive operations of ng-firebase-signals (src/lib/storage.ts,         *)
(* src/lib/auth.ts, src/lib/ai.ts, the firestore listeners docData and     *)
(* collectionData, and initializeAuth).  One operation instance is         *)
(* modelled: `op` says which factory built it.  Its signals (data, status, *)
(* error, progress, uploadTask, streamData, hasMore, metadata, user,       *)
(* loading, messages) are the state; the trigger                           *)
(* and control functions, the vendor callbacks and the continuations after *)
(* each await are the actions.  The vendor SDK is the environment: an      *)
(* upload task is a small state machine whose observer notifications are   *)
(* scheduled asynchronously and delivered in order, and a vendor promise   *)
(* resolves or rejects at any later step.                                  *)
(***************************************************************************)
EXTENDS Integers, Sequences, FiniteSets, TLC

VARIABLES
    op,          \* which factory built the instance
    configured,  \* inject(GOOGLE_AI, {optional: true}) returned a service
    data,        \* signal data      (None or Some(value))
    status,      \* signal status
    error,       \* signal error     (None or Some(message))
    progress,    \* signal progress  (None or Some(UploadProgress))
    streamData,  \* signal streamData (sequence of chunk texts, <<>> = '')
    hasMore,     \* signal hasMore of listFiles
    uploadTask,  \* signal uploadTask (0 = null, else index into tasks)
    tasks,       \* upload tasks created by uploadBytesResumable, in order
    queue,       \* observer notifications scheduled and not yet delivered
    calls,       \* invocations of an async trigger, in call order
    destroyed,   \* the DestroyRef of the owning scope has fired
    metadata,    \* signal metadata of docData / collectionData
    user,        \* signal user of createUserState
    loading,     \* signal loading of createUserState
    userState,   \* the module-level userState signal read by initializeAuth
    authUser,    \* the user the vendor Auth service currently holds
    subs,        \* vendor listeners registered by the operation, in order
    messages,    \* signal messages of createChat
    systemPrompt,\* the systemPrompt argument of createChat (None = not given)
    cells,       \* signal store of op "pair": signal id -> current value
    inst,        \* op "pair": the signals each uploadFile() call returned
    config,      \* the FirebaseConfig given to validateFirebaseConfig()
    errors,      \* the list validateFirebaseConfig() returned
    thrown,      \* exception or rejection a call passed to its caller (None = none)
    last         \* the operation or handler that ran last, with its subject

listenerVars == <<metadata, user, loading, userState, authUser, subs>>

chatVars == <<messages, systemPrompt>>
pairVars == <<cells, inst>>
configVars == <<config, errors>>

vars == <<op, configured, data, status, error, progress, streamData, hasMore,
          uploadTask, tasks, queue, calls, destroyed, listenerVars, chatVars, pairVars,
          configVars, thrown, last>>

----------------------------------------------------------------------------
(* Bounds *)

MaxTasks == 2      \* startUpload() calls per instance
MaxQueue == 2      \* scheduled, undelivered observer notifications
MaxCalls == 2      \* calls of an async trigger per instance
MaxChunks == 2     \* chunks a stream delivers
MaxItems == 2      \* items a listing enumerates
MaxInits == 2      \* initializeAuth() calls, each from its own scope
MaxPrompts == 2    \* prompts given to generateBatch()

(* Program values *)

TotalBytes == 2    \* snapshot.totalBytes of the uploaded file, in units

None == <<>>
Some(x) == <<x>>

URLs == {"url1", "url2"}
\* chunk.text() of the k-th chunk of the stream opened by call c
ChunkText(c, k) == <<c, k>>
TransportMessage == "Upload failed"
RefMessage == "Invalid argument"
RejectMessage == "File not found"
CanceledMessage == "storage/canceled"
NotConfiguredMessage == "Google AI not configured. Please provide googleAI.apiKey in your Firebase config."
NotConfiguredShort == "Google AI not configured"

Texts == {"t1", "t2"}
\* result.prefixes.length of a listing: no folder or one
PrefixCounts == {0, 1}

\* documents a snapshot can carry, and the metadata of a snapshot
Docs == {"d1", "d2"}
DocLists == {<<>>, <<"d1">>, <<"d1", "d2">>}
Metas == {[fromCache |-> c, hasPendingWrites |-> FALSE] : c \in BOOLEAN}
ListenerMessage == "Permission denied"
\* what the Auth service can hold: signed out, or one of two users
AuthUsers == {None, Some("u1"), Some("u2")}

ListenerOps == {"docData", "collectionData", "createUserState", "initializeAuth"}
AuthListenerOps == {"createUserState", "initializeAuth"}

\* createChat is defined twice in ai.ts: the first definition (150-220)
\* and the second one (547-642)
ChatOps == {"createChatFirst", "createChat"}
SystemText == <<"system", 0>>
\* the text of the c-th message sent and of the model's answer to it
UserText(c) == <<"user", c>>
ModelText(c) == <<"model", c>>
Message(role, content) == [role |-> role, content |-> content]

\* the promise-style helpers: generateText and generateTextStream of ai.ts
\* 84-147, and signInWithGoogle, signInWithEmail, createUser and signOut of
\* the promise-style auth module
AIHelperOps == {"generateTextPromise", "generateTextStreamPromise"}
AuthHelperOps == {"signInWithGooglePromise", "signInWithEmailPromise", "createUserPromise",
                  "signOutPromise"}
HelperOps == AIHelperOps \cup AuthHelperOps
\* an error message as the text put in front of a vendor message, and it
Text(prefix, message) == <<prefix, message>>

\* generateBatch: the prompts, and the AIResponse values it collects
Prompts == {"p1", "p2"}
PromptLists == UNION {[1..n -> Prompts] : n \in 0..MaxPrompts}
UsageMetadata == {None, Some(3)}
Reply(prompt) == <<"reply", prompt>>
ZeroUsage == [promptTokens |-> 0, responseTokens |-> 0, totalTokens |-> 0]
Placeholder == [text |-> <<>>, usage |-> ZeroUsage, safetyRatings |-> <<>>]

\* validateFirebaseConfig: the variant of app.ts, and the variant that also
\* knows the googleAI option
ValidateOps == {"validateFirebaseConfig", "validateFirebaseConfigAI"}
RequiredFields == <<"apiKey", "authDomain", "projectId", "storageBucket",
                    "messagingSenderId", "appId">>
\* a string field of the config: absent, the empty string, or a value
FieldValues == {None, Some(""), Some("x")}
\* config.googleAI: absent, or an object whose apiKey is a string field
GoogleAIValues == {None} \cup {Some(k) : k \in FieldValues}
Configs ==
    [apiKey : FieldValues, authDomain : FieldValues, projectId : FieldValues,
     storageBucket : FieldValues, messagingSenderId : FieldValues, appId : FieldValues,
     measurementId : {None, Some("x")}, databaseURL : {None, Some("x")},
     googleAI : GoogleAIValues]
DefaultConfig ==
    [apiKey |-> Some("x"), authDomain |-> Some("x"), projectId |-> Some("x"),
     storageBucket |-> Some("x"), messagingSenderId |-> Some("x"), appId |-> Some("x"),
     measurementId |-> None, databaseURL |-> None, googleAI |-> None]
Required(field) == Text(field, " is required")
GoogleAIRequired == Text("googleAI.apiKey", " is required when googleAI is provided")

\* the reactive auth operations that act on auth.currentUser
NeedsUserOps == {"updateUserProfile", "changePassword", "deleteUserAccount",
                 "sendEmailVerificationEmail"}
NoUserMessage == "No user signed in"

\* op "pair": uploadFile() called twice, giving two instances
Instances == {1, 2}
SignalNames == {"data", "status", "error", "progress"}

Ops == {"upload", "download", "list", "deleteFile", "signIn", "generateText", "generateTextStream"}
           \cup ListenerOps \cup ChatOps \cup {"pair"} \cup HelperOps
           \cup {"generateBatch"} \cup ValidateOps \cup NeedsUserOps

Terminal == {"success", "error", "cancelled"}

----------------------------------------------------------------------------
(* Vendor upload task (firebase/storage UploadTask).  A task notifies its   *)
(* observer asynchronously: a state change appends a notification to the   *)
(* event loop's queue, and queued notifications run in order before the    *)
(* next transport event is handled.                                        *)

NextNote(i, bytes, state) ==
    [task |-> i, kind |-> "next", bytes |-> bytes, state |-> state, message |-> ""]
ErrorNote(i, message) ==
    [task |-> i, kind |-> "error", bytes |-> 0, state |-> "", message |-> message]
CompleteNote(i) ==
    [task |-> i, kind |-> "complete", bytes |-> 0, state |-> "", message |-> ""]

\* seen: the non-zero bytesTransferred values the task's observer was handed
NewTask == [vstate |-> "running", sent |-> 0, url |-> "none", seen |-> {}]

Fits(q) == Len(q) <= MaxQueue
Idle == queue = <<>>

\* task.pause(): a running task becomes paused and notifies its observer
VendorPause(t) == IF t.vstate = "running" THEN [t EXCEPT !.vstate = "paused"] ELSE t
PauseNotes(i, t) ==
    IF t.vstate = "running" THEN <<NextNote(i, t.sent, "paused")>> ELSE <<>>

\* task.resume(): a paused task runs again and notifies its observer
VendorResume(t) == IF t.vstate = "paused" THEN [t EXCEPT !.vstate = "running"] ELSE t
ResumeNotes(i, t) ==
    IF t.vstate = "paused" THEN <<NextNote(i, t.sent, "running")>> ELSE <<>>

\* task.cancel(): a running or paused task is canceled; the vendor reports
\* it through the observer's error callback.  A finished task is unaffected.
VendorCancel(t) ==
    IF t.vstate \in {"running", "paused"} THEN [t EXCEPT !.vstate = "canceled"] ELSE t
CancelNotes(i, t) ==
    IF t.vstate \in {"running", "paused"} THEN <<ErrorNote(i, CanceledMessage)>> ELSE <<>>

\* the percentage of whole transfers only
PercentageOfWhole(bytes, total) == (bytes \div total) * 100

Percentage(bytes, total) == (bytes * 100) \div total

UploadProgress(bytes) ==
    [bytesTransferred |-> bytes, totalBytes |-> TotalBytes,
     percentage |-> Percentage(bytes, TotalBytes)]

----------------------------------------------------------------------------
(* Vendor listeners (onSnapshot, onAuthStateChanged).  Registering returns  *)
(* an unsubscribe handle; the vendor calls the observer only while the     *)
(* listener is active.  An auth listener is notified once after it is      *)
(* registered and once after every change of the signed-in user.           *)

NewSub(pending) ==
    [active |-> TRUE, pending |-> pending, destroyed |-> FALSE, unsubs |-> 0]

Unsubscribe(s) == [s EXCEPT !.active = FALSE, !.pending = FALSE, !.unsubs = @ + 1]

Listening(k) == k \in DOMAIN subs /\ subs[k].active

----------------------------------------------------------------------------
(* Two instances.  signal(...) creates a new signal every time it runs.     *)

\* the signals of the i-th uploadFile() call if status were created once,
\* at module level, instead of inside the factory
SignalsOfSharedStatus(i) ==
    [data |-> 4 * (i - 1) + 1, status |-> 2, error |-> 4 * (i - 1) + 3,
     progress |-> 4 * (i - 1) + 4]

\* the signals the i-th uploadFile() call creates and returns
SignalsOf(i) ==
    [data |-> 4 * (i - 1) + 1, status |-> 4 * (i - 1) + 2, error |-> 4 * (i - 1) + 3,
     progress |-> 4 * (i - 1) + 4]

\* the value signal id n is created with
InitialSignal(n) == IF n % 4 = 2 THEN "idle" ELSE None

\* signal.set(value) on the signal `name` of instance i
SetSignals(i, values) ==
    [n \in DOMAIN cells |->
        IF \E name \in DOMAIN values : inst[i][name] = n
        THEN values[CHOOSE name \in DOMAIN values : inst[i][name] = n]
        ELSE cells[n]]

----------------------------------------------------------------------------
\* the value the data signal is created with
InitialData ==
    CASE op = "list" -> Some([files |-> <<>>, folders |-> <<>>])
      [] op = "collectionData" -> Some(<<>>)
      [] OTHER -> None

Init ==
    /\ op \in Ops
    /\ configured \in BOOLEAN
    /\ (op \notin {"generateText", "generateTextStream", "generateBatch"}
                    \cup ChatOps \cup AIHelperOps
            => configured)
    /\ data = InitialData
    /\ hasMore = FALSE
    /\ status = IF op \in {"docData", "collectionData"} THEN "loading" ELSE "idle"
    /\ error = IF configured \/ op \in {"createChatFirst", "generateBatch"} \cup AIHelperOps
               THEN None ELSE Some(NotConfiguredMessage)
    /\ progress = None
    /\ streamData = <<>>
    /\ uploadTask = 0
    /\ tasks = <<>>
    /\ queue = <<>>
    /\ calls = <<>>
    /\ destroyed = FALSE
    /\ metadata = None
    /\ user = None
    /\ loading = TRUE
    /\ userState = [currentUser |-> None, isAuthenticated |-> FALSE, isLoading |-> TRUE]
    /\ authUser \in AuthUsers
    /\ (op \notin AuthListenerOps \cup NeedsUserOps => authUser = None)
    /\ subs = CASE op \in {"docData", "collectionData"} -> <<NewSub(FALSE)>>
                [] op = "createUserState" -> <<NewSub(TRUE)>>
                [] OTHER -> <<>>
    /\ systemPrompt \in {None, Some(SystemText)}
    /\ (op # "createChat" => systemPrompt = Some(SystemText))
    /\ messages = CASE op = "createChatFirst" -> <<Message("model", SystemText)>>
                    [] op = "createChat" /\ configured /\ systemPrompt # None ->
                          <<Message("system", SystemText)>>
                    [] OTHER -> <<>>
    /\ inst = IF op = "pair" THEN [i \in Instances |-> SignalsOf(i)] ELSE <<>>
    /\ cells = IF op = "pair"
               THEN [n \in UNION {{inst[i][name] : name \in SignalNames} : i \in Instances}
                        |-> InitialSignal(n)]
               ELSE <<>>
    /\ config \in IF op \in ValidateOps THEN Configs ELSE {DefaultConfig}
    /\ errors = <<>>
    /\ thrown = IF op = "createChatFirst" /\ ~configured
                THEN Some(NotConfiguredMessage) ELSE None
    /\ last = <<"init", 0>>

----------------------------------------------------------------------------
(* uploadFile *)

\* ref(storage, path) or uploadBytesResumable(...) throws: the statements
\* before it have run, the ones after it have not, and the caller gets the
\* exception.  Whether they throw depends on path and file, which are fixed
\* at construction: either every start throws or none does.
startUploadThrows ==
    /\ op = "upload" /\ ~destroyed
    /\ tasks = <<>>
    /\ status' = "loading"
    /\ error' = None
    /\ progress' = None
    /\ thrown' = Some(RefMessage)
    /\ last' = <<"startUploadThrows", 0>>
    /\ UNCHANGED <<op, configured, configVars, pairVars, chatVars,
                   listenerVars, hasMore, data, streamData, uploadTask, tasks,
                   queue, calls, destroyed>>

startUpload ==
    /\ op = "upload" /\ ~destroyed
    /\ thrown = None
    /\ Len(tasks) < MaxTasks
    /\ status' = "loading"
    /\ error' = None
    /\ progress' = None
    /\ tasks' = Append(tasks, NewTask)
    /\ uploadTask' = Len(tasks) + 1
    /\ last' = <<"startUpload", Len(tasks) + 1>>
    /\ UNCHANGED <<op, configured, configVars, pairVars, chatVars, thrown,
                   listenerVars, hasMore, data, streamData, queue, calls,
                   destroyed>>

\* the transport reports transferred bytes
VendorProgress(i) ==
    /\ i \in DOMAIN tasks /\ Idle
    /\ tasks[i].vstate = "running" /\ tasks[i].sent < TotalBytes
    /\ tasks' = [tasks EXCEPT ![i] = [@ EXCEPT !.sent = @ + 1]]
    /\ queue' = Append(queue, NextNote(i, tasks[i].sent + 1, "running"))
    /\ last' = <<"VendorProgress", i>>
    /\ UNCHANGED <<op, configured, configVars, pairVars, chatVars, thrown,
                   listenerVars, hasMore, data, status, error, progress,
                   streamData, uploadTask, calls, destroyed>>

\* the transport fails
VendorFail(i) ==
    /\ i \in DOMAIN tasks /\ Idle
    /\ tasks[i].vstate = "running"
    /\ tasks' = [tasks EXCEPT ![i] = [@ EXCEPT !.vstate = "error"]]
    /\ queue' = Append(queue, ErrorNote(i, TransportMessage))
    /\ last' = <<"VendorFail", i>>
    /\ UNCHANGED <<op, configured, configVars, pairVars, chatVars, thrown,
                   listenerVars, hasMore, data, status, error, progress,
                   streamData, uploadTask, calls, destroyed>>

\* the transport finishes, all bytes transferred
VendorFinish(i) ==
    /\ i \in DOMAIN tasks /\ Idle
    /\ tasks[i].vstate = "running" /\ tasks[i].sent = TotalBytes
    /\ tasks' = [tasks EXCEPT ![i] = [@ EXCEPT !.vstate = "success"]]
    /\ queue' = Append(queue, CompleteNote(i))
    /\ last' = <<"VendorFinish", i>>
    /\ UNCHANGED <<op, configured, configVars, pairVars, chatVars, thrown,
                   listenerVars, hasMore, data, status, error, progress,
                   streamData, uploadTask, calls, destroyed>>

\* task.on next handler
OnSnapshot ==
    /\ queue # <<>> /\ Head(queue).kind = "next"
    /\ LET snapshot == Head(queue) IN
        /\ progress' = Some(UploadProgress(snapshot.bytes))
        /\ status' = CASE snapshot.state = "paused" -> "paused"
                       [] snapshot.state = "running" -> "loading"
                       [] OTHER -> status
        /\ tasks' = [tasks EXCEPT ![snapshot.task].seen = @ \cup ({snapshot.bytes} \ {0})]
        /\ last' = <<"OnSnapshot", snapshot.task>>
    /\ queue' = Tail(queue)
    /\ UNCHANGED <<op, configured, configVars, pairVars, chatVars, thrown,
                   listenerVars, hasMore, data, error, streamData, uploadTask,
                   calls, destroyed>>

\* task.on error handler
OnError ==
    /\ queue # <<>> /\ Head(queue).kind = "error"
    /\ status' = "error"
    /\ error' = Some(Head(queue).message)
    /\ progress' = None
    /\ queue' = Tail(queue)
    /\ last' = <<"OnError", Head(queue).task>>
    /\ UNCHANGED <<op, configured, configVars, pairVars, chatVars, thrown,
                   listenerVars, hasMore, data, streamData, uploadTask, tasks,
                   calls, destroyed>>

\* a completion handler that reports success before the download-URL lookup
OnCompleteSetsSuccess ==
    /\ queue # <<>> /\ Head(queue).kind = "complete"
    /\ tasks' = [tasks EXCEPT ![Head(queue).task] = [@ EXCEPT !.url = "awaiting"]]
    /\ queue' = Tail(queue)
    /\ status' = "success"
    /\ last' = <<"OnComplete", Head(queue).task>>
    /\ UNCHANGED <<op, configured, configVars, pairVars, chatVars, thrown,
                   listenerVars, hasMore, data, error, progress,
                   streamData, uploadTask, calls, destroyed>>

\* task.on completion handler, up to its await of getDownloadURL
OnComplete ==
    /\ queue # <<>> /\ Head(queue).kind = "complete"
    /\ tasks' = [tasks EXCEPT ![Head(queue).task] = [@ EXCEPT !.url = "awaiting"]]
    /\ queue' = Tail(queue)
    /\ last' = <<"OnComplete", Head(queue).task>>
    /\ UNCHANGED <<op, configured, configVars, pairVars, chatVars, thrown,
                   listenerVars, hasMore, data, status, error, progress,
                   streamData, uploadTask, calls, destroyed>>

\* completion handler after getDownloadURL resolved
UrlResolved(i, downloadURL) ==
    /\ i \in DOMAIN tasks /\ Idle
    /\ tasks[i].url = "awaiting"
    /\ data' = Some(downloadURL)
    /\ status' = "success"
    /\ progress' = None
    /\ tasks' = [tasks EXCEPT ![i] = [@ EXCEPT !.url = "settled"]]
    /\ last' = <<"UrlResolved", i>>
    /\ UNCHANGED <<op, configured, configVars, pairVars, chatVars, thrown,
                   listenerVars, hasMore, error, streamData, uploadTask,
                   queue, calls, destroyed>>

\* completion handler after getDownloadURL rejected, and the same handler
\* with an empty catch block
UrlRejectedSwallowed(i) ==
    /\ i \in DOMAIN tasks /\ Idle
    /\ tasks[i].url = "awaiting"
    /\ tasks' = [tasks EXCEPT ![i] = [@ EXCEPT !.url = "settled"]]
    /\ last' = <<"UrlRejected", i>>
    /\ UNCHANGED <<op, configured, configVars, pairVars, chatVars, thrown,
                   listenerVars, hasMore, data, status, error, progress,
                   streamData, uploadTask, queue, calls, destroyed>>

UrlRejected(i) ==
    /\ i \in DOMAIN tasks /\ Idle
    /\ tasks[i].url = "awaiting"
    /\ status' = "error"
    /\ error' = Some(TransportMessage)
    /\ tasks' = [tasks EXCEPT ![i] = [@ EXCEPT !.url = "settled"]]
    /\ last' = <<"UrlRejected", i>>
    /\ UNCHANGED <<op, configured, configVars, pairVars, chatVars, thrown,
                   listenerVars, hasMore, data, progress, streamData,
                   uploadTask, queue, calls, destroyed>>

pause ==
    /\ op = "upload" /\ ~destroyed
    /\ IF uploadTask # 0
       THEN /\ tasks' = [tasks EXCEPT ![uploadTask] = VendorPause(@)]
            /\ queue' = queue \o PauseNotes(uploadTask, tasks[uploadTask])
       ELSE UNCHANGED <<tasks, queue>>
    /\ Fits(queue')
    /\ last' = <<"pause", uploadTask>>
    /\ UNCHANGED <<op, configured, configVars, pairVars, chatVars, thrown,
                   listenerVars, hasMore, data, status, error, progress,
                   streamData, uploadTask, calls, destroyed>>

resume ==
    /\ op = "upload" /\ ~destroyed
    /\ IF uploadTask # 0
       THEN /\ tasks' = [tasks EXCEPT ![uploadTask] = VendorResume(@)]
            /\ queue' = queue \o ResumeNotes(uploadTask, tasks[uploadTask])
       ELSE UNCHANGED <<tasks, queue>>
    /\ Fits(queue')
    /\ last' = <<"resume", uploadTask>>
    /\ UNCHANGED <<op, configured, configVars, pairVars, chatVars, thrown,
                   listenerVars, hasMore, data, status, error, progress,
                   streamData, uploadTask, calls, destroyed>>

\* cancel() without its test of the task
cancelWithoutTask ==
    /\ op = "upload" /\ ~destroyed
    /\ IF uploadTask # 0
       THEN /\ tasks' = [tasks EXCEPT ![uploadTask] = VendorCancel(@)]
            /\ queue' = queue \o CancelNotes(uploadTask, tasks[uploadTask])
            /\ status' = "cancelled"
            /\ progress' = None
       ELSE /\ status' = "cancelled"
            /\ progress' = None
            /\ UNCHANGED <<tasks, queue>>
    /\ Fits(queue')
    /\ last' = <<"cancel", uploadTask>>
    /\ UNCHANGED <<op, configured, configVars, pairVars, chatVars, thrown,
                   listenerVars, hasMore, data, error, streamData, uploadTask,
                   calls, destroyed>>

cancel ==
    /\ op = "upload" /\ ~destroyed
    /\ IF uploadTask # 0
       THEN /\ tasks' = [tasks EXCEPT ![uploadTask] = VendorCancel(@)]
            /\ queue' = queue \o CancelNotes(uploadTask, tasks[uploadTask])
            /\ status' = "cancelled"
            /\ progress' = None
       ELSE UNCHANGED <<tasks, queue, status, progress>>
    /\ Fits(queue')
    /\ last' = <<"cancel", uploadTask>>
    /\ UNCHANGED <<op, configured, configVars, pairVars, chatVars, thrown,
                   listenerVars, hasMore, data, error, streamData, uploadTask,
                   calls, destroyed>>

onDestroy ==
    /\ op = "upload" /\ ~destroyed
    /\ destroyed' = TRUE
    /\ IF uploadTask # 0
       THEN /\ tasks' = [tasks EXCEPT ![uploadTask] = VendorCancel(@)]
            /\ queue' = queue \o CancelNotes(uploadTask, tasks[uploadTask])
       ELSE UNCHANGED <<tasks, queue>>
    /\ Fits(queue')
    /\ last' = <<"onDestroy", uploadTask>>
    /\ UNCHANGED <<op, configured, configVars, pairVars, chatVars, thrown,
                   listenerVars, hasMore, data, status, error, progress,
                   streamData, uploadTask, calls>>

----------------------------------------------------------------------------
(* Async triggers: each call runs up to its first await, and a later step   *)
(* resumes it when the awaited vendor promise settles.                     *)

NewCall(pc) ==
    [pc |-> pc, url |-> "", fullText |-> <<>>,
     items |-> <<>>, files |-> <<>>, listed |-> 0, prefixes |-> 0, fetched |-> {}]

Awaiting(c, pcs) == c \in DOMAIN calls /\ calls[c].pc \in pcs

\* the catch block shared by every async trigger, and the same block
\* reporting a fixed text instead of err.message
CatchFixedText(c, message, name) ==
    /\ status' = "error"
    /\ error' = Some("Operation failed")
    /\ calls' = [calls EXCEPT ![c] = [@ EXCEPT !.pc = "done"]]
    /\ last' = <<name, c>>

Catch(c, message, name) ==
    /\ status' = "error"
    /\ error' = Some(message)
    /\ calls' = [calls EXCEPT ![c] = [@ EXCEPT !.pc = "done"]]
    /\ last' = <<name, c>>

(* downloadFile *)

\* download() without its error.set(null)
downloadKeepsError ==
    /\ op = "download"
    /\ Len(calls) < MaxCalls
    /\ status' = "loading"
    /\ calls' = Append(calls, NewCall("getDownloadURL"))
    /\ last' = <<"download", Len(calls) + 1>>
    /\ UNCHANGED <<op, configured, configVars, pairVars, chatVars, thrown,
                   listenerVars, hasMore, data, error, progress, streamData,
                   uploadTask, tasks, queue, destroyed>>

download ==
    /\ op = "download"
    /\ Len(calls) < MaxCalls
    /\ status' = "loading"
    /\ error' = None
    /\ calls' = Append(calls, NewCall("getDownloadURL"))
    /\ last' = <<"download", Len(calls) + 1>>
    /\ UNCHANGED <<op, configured, configVars, pairVars, chatVars, thrown,
                   listenerVars, hasMore, data, progress, streamData,
                   uploadTask, tasks, queue, destroyed>>

DownloadURLResolved(c, downloadURL) ==
    /\ op = "download" /\ Awaiting(c, {"getDownloadURL"})
    /\ calls' = [calls EXCEPT ![c] = [@ EXCEPT !.pc = "getMetadata", !.url = downloadURL]]
    /\ last' = <<"DownloadURLResolved", c>>
    /\ UNCHANGED <<op, configured, configVars, pairVars, chatVars, thrown,
                   listenerVars, hasMore, data, status, error, progress,
                   streamData, uploadTask, tasks, queue, destroyed>>

DownloadMetadataResolved(c) ==
    /\ op = "download" /\ Awaiting(c, {"getMetadata"})
    /\ data' = Some(calls[c].url)
    /\ status' = "success"
    /\ calls' = [calls EXCEPT ![c] = [@ EXCEPT !.pc = "done"]]
    /\ last' = <<"DownloadMetadataResolved", c>>
    /\ UNCHANGED <<op, configured, configVars, pairVars, chatVars, thrown,
                   listenerVars, hasMore, error, progress, streamData,
                   uploadTask, tasks, queue, destroyed>>

DownloadRejected(c) ==
    /\ op = "download" /\ Awaiting(c, {"getDownloadURL", "getMetadata"})
    /\ Catch(c, RejectMessage, "DownloadRejected")
    /\ UNCHANGED <<op, configured, configVars, pairVars, chatVars, thrown,
                   listenerVars, hasMore, data, progress, streamData,
                   uploadTask, tasks, queue, destroyed>>

(* listFiles *)

\* result.items of a listing of n items
Items(n) == [k \in 1..n |-> k]

list ==
    /\ op = "list"
    /\ Len(calls) < MaxCalls
    /\ status' = "loading"
    /\ error' = None
    /\ calls' = Append(calls, NewCall("listAll"))
    /\ last' = <<"list", Len(calls) + 1>>
    /\ UNCHANGED <<op, configured, configVars, pairVars, chatVars, thrown,
                   listenerVars, hasMore, data, progress, streamData,
                   uploadTask, tasks, queue, destroyed>>

\* the statements after the item loop, run when no item is left
ListFinish(c, files, name) ==
    /\ data' = Some([files |-> files, folders |-> Items(calls[c].prefixes)])
    /\ hasMore' = (calls[c].listed > 0 \/ calls[c].prefixes > 0)
    /\ status' = "success"
    /\ calls' = [calls EXCEPT ![c] = NewCall("done")]
    /\ last' = <<name, c>>

\* listAll resolved with n items and p prefixes.  With no item the loop is
\* skipped and the call finishes at once, else it runs to the first item's
\* await.
ListAllResolved(c, n, p) ==
    /\ op = "list" /\ Awaiting(c, {"listAll"})
    /\ IF n = 0
       THEN /\ data' = Some([files |-> <<>>, folders |-> Items(p)])
            /\ hasMore' = (p > 0)
            /\ status' = "success"
            /\ calls' = [calls EXCEPT ![c] = NewCall("done")]
       ELSE /\ calls' = [calls EXCEPT ![c] =
                            [@ EXCEPT !.pc = "item", !.items = Items(n),
                                      !.listed = n, !.prefixes = p]]
            /\ UNCHANGED <<data, hasMore, status>>
    /\ last' = <<"ListAllResolved", c>>
    /\ UNCHANGED <<op, configured, configVars, pairVars, chatVars, thrown,
                   listenerVars, error, progress, streamData, uploadTask,
                   tasks, queue, destroyed>>

\* getMetadata and getDownloadURL of the current item resolved
ListItemFetched(c) ==
    /\ op = "list" /\ Awaiting(c, {"item"})
    /\ LET files == Append(calls[c].files, Head(calls[c].items))
           got == calls[c].fetched \cup {Head(calls[c].items)}
           rest == Tail(calls[c].items) IN
        IF rest = <<>>
        THEN ListFinish(c, files, "ListItemFetched")
        ELSE /\ calls' = [calls EXCEPT ![c] = [@ EXCEPT !.items = rest, !.files = files,
                                                        !.fetched = got]]
             /\ last' = <<"ListItemFetched", c>>
             /\ UNCHANGED <<data, hasMore, status>>
    /\ UNCHANGED <<op, configured, configVars, pairVars, chatVars, thrown,
                   listenerVars, error, progress, streamData, uploadTask,
                   tasks, queue, destroyed>>

\* getMetadata or getDownloadURL of the current item rejected: item skipped
ListItemSkipped(c) ==
    /\ op = "list" /\ Awaiting(c, {"item"})
    /\ LET files == calls[c].files
           rest == Tail(calls[c].items) IN
        IF rest = <<>>
        THEN ListFinish(c, files, "ListItemSkipped")
        ELSE /\ calls' = [calls EXCEPT ![c] = [@ EXCEPT !.items = rest]]
             /\ last' = <<"ListItemSkipped", c>>
             /\ UNCHANGED <<data, hasMore, status>>
    /\ UNCHANGED <<op, configured, configVars, pairVars, chatVars, thrown,
                   listenerVars, error, progress, streamData, uploadTask,
                   tasks, queue, destroyed>>

ListRejected(c) ==
    /\ op = "list" /\ Awaiting(c, {"listAll"})
    /\ Catch(c, RejectMessage, "ListRejected")
    /\ UNCHANGED <<op, configured, configVars, pairVars, chatVars, thrown,
                   listenerVars, hasMore, data, progress, streamData,
                   uploadTask, tasks, queue, destroyed>>

(* deleteFile *)

deleteFile ==
    /\ op = "deleteFile"
    /\ Len(calls) < MaxCalls
    /\ status' = "loading"
    /\ error' = None
    /\ calls' = Append(calls, NewCall("deleteObject"))
    /\ last' = <<"deleteFile", Len(calls) + 1>>
    /\ UNCHANGED <<op, configured, configVars, pairVars, chatVars, thrown,
                   listenerVars, hasMore, data, progress, streamData,
                   uploadTask, tasks, queue, destroyed>>

DeleteResolved(c) ==
    /\ op = "deleteFile" /\ Awaiting(c, {"deleteObject"})
    /\ status' = "success"
    /\ calls' = [calls EXCEPT ![c] = [@ EXCEPT !.pc = "done"]]
    /\ last' = <<"DeleteResolved", c>>
    /\ UNCHANGED <<op, configured, configVars, pairVars, chatVars, thrown,
                   listenerVars, hasMore, data, error, progress, streamData,
                   uploadTask, tasks, queue, destroyed>>

DeleteRejected(c) ==
    /\ op = "deleteFile" /\ Awaiting(c, {"deleteObject"})
    /\ Catch(c, RejectMessage, "DeleteRejected")
    /\ UNCHANGED <<op, configured, configVars, pairVars, chatVars, thrown,
                   listenerVars, hasMore, data, progress, streamData,
                   uploadTask, tasks, queue, destroyed>>

(* signInWithGoogle *)

signIn ==
    /\ op = "signIn"
    /\ Len(calls) < MaxCalls
    /\ status' = "loading"
    /\ error' = None
    /\ calls' = Append(calls, NewCall("signInWithPopup"))
    /\ last' = <<"signIn", Len(calls) + 1>>
    /\ UNCHANGED <<op, configured, configVars, pairVars, chatVars, thrown,
                   listenerVars, hasMore, data, progress, streamData,
                   uploadTask, tasks, queue, destroyed>>

SignInResolved(c) ==
    /\ op = "signIn" /\ Awaiting(c, {"signInWithPopup"})
    /\ status' = "success"
    /\ calls' = [calls EXCEPT ![c] = [@ EXCEPT !.pc = "done"]]
    /\ last' = <<"SignInResolved", c>>
    /\ UNCHANGED <<op, configured, configVars, pairVars, chatVars, thrown,
                   listenerVars, hasMore, data, error, progress, streamData,
                   uploadTask, tasks, queue, destroyed>>

SignInRejected(c) ==
    /\ op = "signIn" /\ Awaiting(c, {"signInWithPopup"})
    /\ Catch(c, RejectMessage, "SignInRejected")
    /\ UNCHANGED <<op, configured, configVars, pairVars, chatVars, thrown,
                   listenerVars, hasMore, data, progress, streamData,
                   uploadTask, tasks, queue, destroyed>>

(* generateText (reactive) *)

\* generate() of the instance returned when GOOGLE_AI is not provided
generateNotConfigured ==
    /\ op \in {"generateText", "generateTextStream"} /\ ~configured
    /\ Len(calls) < MaxCalls
    /\ error' = Some(NotConfiguredShort)
    /\ calls' = Append(calls, NewCall("done"))
    /\ last' = <<"generateNotConfigured", Len(calls) + 1>>
    /\ UNCHANGED <<op, configured, configVars, pairVars, chatVars, thrown,
                   listenerVars, hasMore, data, status, progress, streamData,
                   uploadTask, tasks, queue, destroyed>>

generateTextGenerate ==
    /\ op = "generateText" /\ configured
    /\ Len(calls) < MaxCalls
    /\ status' = "loading"
    /\ error' = None
    /\ calls' = Append(calls, NewCall("generateContent"))
    /\ last' = <<"generateTextGenerate", Len(calls) + 1>>
    /\ UNCHANGED <<op, configured, configVars, pairVars, chatVars, thrown,
                   listenerVars, hasMore, data, progress, streamData,
                   uploadTask, tasks, queue, destroyed>>

GenerateContentResolved(c, text) ==
    /\ op = "generateText" /\ Awaiting(c, {"generateContent"})
    /\ calls' = [calls EXCEPT ![c] = [@ EXCEPT !.pc = "processResponse", !.url = text]]
    /\ last' = <<"GenerateContentResolved", c>>
    /\ UNCHANGED <<op, configured, configVars, pairVars, chatVars, thrown,
                   listenerVars, hasMore, data, status, error, progress,
                   streamData, uploadTask, tasks, queue, destroyed>>

GenerateResponseResolved(c) ==
    /\ op = "generateText" /\ Awaiting(c, {"processResponse"})
    /\ data' = Some(calls[c].url)
    /\ status' = "success"
    /\ calls' = [calls EXCEPT ![c] = [@ EXCEPT !.pc = "done"]]
    /\ last' = <<"GenerateResponseResolved", c>>
    /\ UNCHANGED <<op, configured, configVars, pairVars, chatVars, thrown,
                   listenerVars, hasMore, error, progress, streamData,
                   uploadTask, tasks, queue, destroyed>>

GenerateRejected(c) ==
    /\ op = "generateText" /\ Awaiting(c, {"generateContent", "processResponse"})
    /\ Catch(c, RejectMessage, "GenerateRejected")
    /\ UNCHANGED <<op, configured, configVars, pairVars, chatVars, thrown,
                   listenerVars, hasMore, data, progress, streamData,
                   uploadTask, tasks, queue, destroyed>>

(* generateTextStream (reactive) *)

generateTextStreamGenerate ==
    /\ op = "generateTextStream" /\ configured
    /\ Len(calls) < MaxCalls
    /\ status' = "streaming"
    /\ error' = None
    /\ streamData' = <<>>
    /\ calls' = Append(calls, NewCall("generateContentStream"))
    /\ last' = <<"generateTextStreamGenerate", Len(calls) + 1>>
    /\ UNCHANGED <<op, configured, configVars, pairVars, chatVars, thrown,
                   listenerVars, hasMore, data, progress, uploadTask, tasks,
                   queue, destroyed>>

StreamOpened(c) ==
    /\ op = "generateTextStream" /\ Awaiting(c, {"generateContentStream"})
    /\ calls' = [calls EXCEPT ![c] = [@ EXCEPT !.pc = "stream"]]
    /\ last' = <<"StreamOpened", c>>
    /\ UNCHANGED <<op, configured, configVars, pairVars, chatVars, thrown,
                   listenerVars, hasMore, data, status, error, progress,
                   streamData, uploadTask, tasks, queue, destroyed>>

\* a chunk handler that shows the last chunk instead of the text so far
StreamChunkLastOnly(c) ==
    /\ op = "generateTextStream" /\ Awaiting(c, {"stream"})
    /\ Len(calls[c].fullText) < MaxChunks
    /\ LET chunkText == ChunkText(c, Len(calls[c].fullText) + 1)
           fullText == Append(calls[c].fullText, chunkText) IN
        /\ streamData' = <<chunkText>>
        /\ calls' = [calls EXCEPT ![c] = [@ EXCEPT !.fullText = fullText]]
    /\ last' = <<"StreamChunk", c>>
    /\ UNCHANGED <<op, configured, configVars, pairVars, chatVars, thrown,
                   listenerVars, hasMore, data, status, error, progress,
                   uploadTask, tasks, queue, destroyed>>

StreamChunk(c) ==
    /\ op = "generateTextStream" /\ Awaiting(c, {"stream"})
    /\ Len(calls[c].fullText) < MaxChunks
    /\ LET chunkText == ChunkText(c, Len(calls[c].fullText) + 1)
           fullText == Append(calls[c].fullText, chunkText) IN
        /\ streamData' = fullText
        /\ calls' = [calls EXCEPT ![c] = [@ EXCEPT !.fullText = fullText]]
    /\ last' = <<"StreamChunk", c>>
    /\ UNCHANGED <<op, configured, configVars, pairVars, chatVars, thrown,
                   listenerVars, hasMore, data, status, error, progress,
                   uploadTask, tasks, queue, destroyed>>

StreamEnded(c) ==
    /\ op = "generateTextStream" /\ Awaiting(c, {"stream"})
    /\ calls' = [calls EXCEPT ![c] = [@ EXCEPT !.pc = "processResponse"]]
    /\ last' = <<"StreamEnded", c>>
    /\ UNCHANGED <<op, configured, configVars, pairVars, chatVars, thrown,
                   listenerVars, hasMore, data, status, error, progress,
                   streamData, uploadTask, tasks, queue, destroyed>>

StreamResponseResolved(c) ==
    /\ op = "generateTextStream" /\ Awaiting(c, {"processResponse"})
    /\ data' = Some(calls[c].fullText)
    /\ status' = "success"
    /\ calls' = [calls EXCEPT ![c] = [@ EXCEPT !.pc = "done"]]
    /\ last' = <<"StreamResponseResolved", c>>
    /\ UNCHANGED <<op, configured, configVars, pairVars, chatVars, thrown,
                   listenerVars, hasMore, error, progress, streamData,
                   uploadTask, tasks, queue, destroyed>>

StreamRejected(c) ==
    /\ op = "generateTextStream"
    /\ Awaiting(c, {"generateContentStream", "stream", "processResponse"})
    /\ Catch(c, RejectMessage, "StreamRejected")
    /\ UNCHANGED <<op, configured, configVars, pairVars, chatVars, thrown,
                   listenerVars, hasMore, data, progress, streamData,
                   uploadTask, tasks, queue, destroyed>>

----------------------------------------------------------------------------
(* createChat *)

\* the sendMessage returned when GOOGLE_AI was not provided (second definition)
sendMessageNotConfigured ==
    /\ op = "createChat" /\ ~configured
    /\ Len(calls) < MaxCalls
    /\ error' = Some(NotConfiguredShort)
    /\ calls' = Append(calls, NewCall("done"))
    /\ last' = <<"sendMessageNotConfigured", Len(calls) + 1>>
    /\ UNCHANGED <<op, configured, configVars, pairVars, listenerVars,
                   hasMore, data, status, progress, streamData, uploadTask,
                   tasks, queue, destroyed, chatVars, thrown>>

sendMessage ==
    /\ op \in ChatOps /\ configured
    /\ Len(calls) < MaxCalls
    /\ status' = "loading"
    /\ error' = None
    /\ messages' = Append(messages, Message("user", UserText(Len(calls) + 1)))
    /\ calls' = Append(calls, NewCall("sendMessage"))
    /\ last' = <<"sendMessage", Len(calls) + 1>>
    /\ UNCHANGED <<op, configured, configVars, pairVars, listenerVars,
                   hasMore, data, progress, streamData, uploadTask, tasks,
                   queue, destroyed, systemPrompt, thrown>>

SendMessageResolved(c) ==
    /\ op \in ChatOps /\ Awaiting(c, {"sendMessage"})
    /\ calls' = [calls EXCEPT ![c] = [@ EXCEPT !.pc = "processResponse"]]
    /\ last' = <<"SendMessageResolved", c>>
    /\ UNCHANGED <<op, configured, configVars, pairVars, listenerVars,
                   hasMore, data, status, error, progress, streamData,
                   uploadTask, tasks, queue, destroyed, chatVars, thrown>>

SendResponseResolved(c) ==
    /\ op \in ChatOps /\ Awaiting(c, {"processResponse"})
    /\ messages' = Append(messages, Message("model", ModelText(c)))
    /\ status' = "success"
    /\ calls' = [calls EXCEPT ![c] = [@ EXCEPT !.pc = "done"]]
    /\ last' = <<"SendResponseResolved", c>>
    /\ UNCHANGED <<op, configured, configVars, pairVars, listenerVars,
                   hasMore, data, error, progress, streamData, uploadTask,
                   tasks, queue, destroyed, systemPrompt, thrown>>

\* the catch block; the first definition rethrows after recording the error
SendRejected(c) ==
    /\ op \in ChatOps /\ Awaiting(c, {"sendMessage", "processResponse"})
    /\ Catch(c, RejectMessage, "SendRejected")
    /\ thrown' = IF op = "createChatFirst" THEN Some(RejectMessage) ELSE thrown
    /\ UNCHANGED <<op, configured, configVars, pairVars, listenerVars,
                   hasMore, data, progress, streamData, uploadTask, tasks,
                   queue, destroyed, chatVars>>

clearHistory ==
    /\ op \in ChatOps
    /\ ~(op = "createChatFirst" /\ ~configured)
    /\ messages' = CASE op = "createChatFirst" -> <<Message("model", SystemText)>>
                     [] op = "createChat" /\ ~configured -> messages
                     [] op = "createChat" /\ configured /\ systemPrompt # None ->
                           <<Message("system", SystemText)>>
                     [] OTHER -> <<>>
    /\ status' = IF op = "createChatFirst" THEN "idle" ELSE status
    /\ error' = IF op = "createChatFirst" THEN None ELSE error
    /\ last' = <<"clearHistory", 0>>
    /\ UNCHANGED <<op, configured, configVars, pairVars, listenerVars,
                   hasMore, data, progress, streamData, uploadTask, tasks,
                   queue, calls, destroyed, systemPrompt, thrown>>

----------------------------------------------------------------------------
(* uploadFile, two instances: the statements that write signals *)

PairFrame ==
    UNCHANGED <<op, configured, configVars, data, status, error, progress, streamData, hasMore,
                uploadTask, tasks, queue, calls, destroyed, listenerVars, chatVars,
                inst, thrown>>

PairStatus(i) == cells[inst[i].status]

PairStartUpload(i) ==
    /\ op = "pair"
    /\ cells' = SetSignals(i, [status |-> "loading", error |-> None, progress |-> None])
    /\ last' = <<"PairStartUpload", i>>
    /\ PairFrame

PairOnSnapshot(i, state) ==
    /\ op = "pair" /\ PairStatus(i) \in {"loading", "paused"}
    /\ cells' = SetSignals(i, [progress |-> Some(UploadProgress(1)),
                               status |-> IF state = "paused" THEN "paused" ELSE "loading"])
    /\ last' = <<"PairOnSnapshot", i>>
    /\ PairFrame

PairOnError(i) ==
    /\ op = "pair" /\ PairStatus(i) \in {"loading", "paused", "cancelled"}
    /\ cells' = SetSignals(i, [status |-> "error", error |-> Some(TransportMessage),
                               progress |-> None])
    /\ last' = <<"PairOnError", i>>
    /\ PairFrame

PairUrlResolved(i, downloadURL) ==
    /\ op = "pair" /\ PairStatus(i) = "loading"
    /\ cells' = SetSignals(i, [data |-> Some(downloadURL), status |-> "success",
                               progress |-> None])
    /\ last' = <<"PairUrlResolved", i>>
    /\ PairFrame

PairCancel(i) ==
    /\ op = "pair" /\ PairStatus(i) # "idle"
    /\ cells' = SetSignals(i, [status |-> "cancelled", progress |-> None])
    /\ last' = <<"PairCancel", i>>
    /\ PairFrame

----------------------------------------------------------------------------
(* promise-style helpers *)

\* the awaits a helper makes one after the other; createUser makes the
\* second one only when a displayName was given
Awaits(h, displayName) ==
    CASE h = "generateTextPromise" -> <<"generateContent", "processResponse">>
      [] h = "generateTextStreamPromise" -> <<"generateContentStream", "stream">>
      [] h = "createUserPromise" /\ displayName ->
            <<"createUserWithEmailAndPassword", "updateProfile">>
      [] h = "createUserPromise" -> <<"createUserWithEmailAndPassword">>
      [] h = "signInWithGooglePromise" -> <<"signInWithPopup">>
      [] h = "signInWithEmailPromise" -> <<"signInWithEmailAndPassword">>
      [] OTHER -> <<"signOut">>

\* the error a helper rejects with when a vendor call failed with `message`
HelperError(h, message) ==
    CASE h = "generateTextPromise" -> Text("Text generation failed: ", message)
      [] h = "generateTextStreamPromise" ->
            Text("Streaming text generation failed: ", message)
      [] OTHER -> Text("", message)

HelperFrame ==
    UNCHANGED <<op, configured, configVars, data, status, error, progress, streamData, hasMore,
                uploadTask, tasks, queue, destroyed, listenerVars, chatVars, pairVars>>

helperNotConfigured ==
    /\ op \in AIHelperOps /\ ~configured
    /\ Len(calls) < MaxCalls
    /\ calls' = Append(calls, NewCall("done"))
    /\ thrown' = Some(Text("", NotConfiguredMessage))
    /\ last' = <<"helperNotConfigured", Len(calls) + 1>>
    /\ HelperFrame

helperCall(displayName) ==
    /\ op \in HelperOps /\ configured
    /\ Len(calls) < MaxCalls
    /\ calls' = Append(calls, [NewCall("await") EXCEPT !.items = Awaits(op, displayName)])
    /\ last' = <<"helperCall", Len(calls) + 1>>
    /\ UNCHANGED thrown
    /\ HelperFrame

HelperResolved(c) ==
    /\ op \in HelperOps /\ Awaiting(c, {"await"})
    /\ calls' = [calls EXCEPT ![c] =
                    IF Len(@.items) = 1 THEN NewCall("done")
                    ELSE [@ EXCEPT !.items = Tail(@)]]
    /\ last' = <<"HelperResolved", c>>
    /\ UNCHANGED thrown
    /\ HelperFrame

HelperRejected(c) ==
    /\ op \in HelperOps /\ Awaiting(c, {"await"})
    /\ calls' = [calls EXCEPT ![c] = NewCall("done")]
    /\ thrown' = Some(HelperError(op, RejectMessage))
    /\ last' = <<"HelperRejected", c>>
    /\ HelperFrame

----------------------------------------------------------------------------
(* generateBatch: one call; `results` and the loop position are its locals *)

\* processResponse: the text of the response, and its usage counts, which
\* are zero when the response carries no usageMetadata
processResponse(prompt, usageMetadata) ==
    [text |-> Reply(prompt),
     usage |-> IF usageMetadata = None THEN ZeroUsage
               ELSE [promptTokens |-> 1, responseTokens |-> usageMetadata[1] - 1,
                     totalTokens |-> usageMetadata[1]],
     safetyRatings |-> <<>>]

\* the call at the n-th prompt; `failed` records the prompts whose
\* generation failed
NewBatch(prompts) ==
    [pc |-> IF prompts = <<>> THEN "done" ELSE "generateContent",
     prompts |-> prompts, n |-> 1, results |-> <<>>, failed |-> {}]

\* the loop pushes `response` for the current prompt and goes to the next
BatchPush(b, response) ==
    [b EXCEPT !.results = Append(@, response),
              !.n = @ + 1,
              !.pc = IF b.n = Len(b.prompts) THEN "done" ELSE "generateContent"]

BatchFrame ==
    UNCHANGED <<op, configured, configVars, data, status, error, progress, streamData, hasMore,
                uploadTask, tasks, queue, destroyed, listenerVars, chatVars, pairVars>>

batchNotConfigured ==
    /\ op = "generateBatch" /\ ~configured
    /\ calls = <<>>
    /\ calls' = <<[NewBatch(<<>>) EXCEPT !.pc = "threw"]>>
    /\ thrown' = Some(Text("", NotConfiguredMessage))
    /\ last' = <<"batchNotConfigured", 1>>
    /\ BatchFrame

generateBatch(prompts) ==
    /\ op = "generateBatch" /\ configured
    /\ calls = <<>>
    /\ calls' = <<NewBatch(prompts)>>
    /\ last' = <<"generateBatch", 1>>
    /\ UNCHANGED thrown
    /\ BatchFrame

BatchContentResolved(c) ==
    /\ op = "generateBatch" /\ Awaiting(c, {"generateContent"})
    /\ calls' = [calls EXCEPT ![c].pc = "processResponse"]
    /\ last' = <<"BatchContentResolved", c>>
    /\ UNCHANGED thrown
    /\ BatchFrame

BatchResponseResolved(c, usageMetadata) ==
    /\ op = "generateBatch" /\ Awaiting(c, {"processResponse"})
    /\ calls' = [calls EXCEPT ![c] =
                    BatchPush(@, processResponse(@.prompts[@.n], usageMetadata))]
    /\ last' = <<"BatchResponseResolved", c>>
    /\ UNCHANGED thrown
    /\ BatchFrame

\* a rejection that ended the loop and the call with it
BatchRejectedEndsLoop(c) ==
    /\ op = "generateBatch" /\ Awaiting(c, {"generateContent", "processResponse"})
    /\ calls' = [calls EXCEPT ![c] = [@ EXCEPT !.failed = @ \cup {calls[c].n},
                                                !.pc = "done"]]
    /\ last' = <<"BatchRejected", c>>
    /\ UNCHANGED thrown
    /\ BatchFrame

\* generateContent or processResponse failed for the current prompt: the
\* catch pushes the placeholder
BatchRejected(c) ==
    /\ op = "generateBatch" /\ Awaiting(c, {"generateContent", "processResponse"})
    /\ calls' = [calls EXCEPT ![c] =
                    BatchPush([@ EXCEPT !.failed = @ \cup {calls[c].n}], Placeholder)]
    /\ last' = <<"BatchRejected", c>>
    /\ UNCHANGED thrown
    /\ BatchFrame

----------------------------------------------------------------------------
(* validateFirebaseConfig *)

\* !v of a string field
FalsyOnlyUndefined(v) == v = None
Falsy(v) == v = None \/ v = Some("")

\* if (cond) errors.push(message)
PushIf(errs, cond, message) == IF cond THEN Append(errs, message) ELSE errs

ValidateFirebaseConfig(c, googleAIVariant) ==
    LET e1 == PushIf(<<>>, Falsy(c.apiKey), Required("apiKey"))
        e2 == PushIf(e1, Falsy(c.authDomain), Required("authDomain"))
        e3 == PushIf(e2, Falsy(c.projectId), Required("projectId"))
        e4 == PushIf(e3, Falsy(c.storageBucket), Required("storageBucket"))
        e5 == PushIf(e4, Falsy(c.messagingSenderId), Required("messagingSenderId"))
        e6 == PushIf(e5, Falsy(c.appId), Required("appId"))
    IN  IF googleAIVariant
        THEN PushIf(e6, c.googleAI # None /\ Falsy(c.googleAI[1]), GoogleAIRequired)
        ELSE e6

validateFirebaseConfig ==
    /\ op \in ValidateOps
    /\ last[1] = "init"
    /\ errors' = ValidateFirebaseConfig(config, op = "validateFirebaseConfigAI")
    /\ last' = <<"validateFirebaseConfig", 0>>
    /\ UNCHANGED <<op, configured, config, data, status, error, progress, streamData,
                   hasMore, uploadTask, tasks, queue, calls, destroyed, listenerVars,
                   chatVars, pairVars, thrown>>

----------------------------------------------------------------------------
(* updateUserProfile / changePassword / deleteUserAccount /                 *)
(* sendEmailVerificationEmail: the same trigger around four vendor calls    *)

NeedsUserFrame ==
    UNCHANGED <<op, configured, configVars, pairVars, chatVars, thrown, hasMore,
                data, progress, streamData, uploadTask, tasks, queue, destroyed,
                metadata, user, loading, userState, subs>>

\* a trigger that makes the vendor call whether or not a user is signed in
needsUserTriggerUnchecked ==
    /\ op \in NeedsUserOps
    /\ Len(calls) < MaxCalls
    /\ status' = "loading"
    /\ error' = None
    /\ calls' = Append(calls, NewCall("vendor"))
    /\ last' = <<"needsUserTrigger", Len(calls) + 1>>
    /\ UNCHANGED authUser
    /\ NeedsUserFrame

\* update() / change() / deleteAccount() / send(): with no current user the
\* throw is caught before any await, so the call ends in the same step
needsUserTrigger ==
    /\ op \in NeedsUserOps
    /\ Len(calls) < MaxCalls
    /\ IF authUser # None
       THEN /\ status' = "loading"
            /\ error' = None
            /\ calls' = Append(calls, NewCall("vendor"))
       ELSE /\ status' = "error"
            /\ error' = Some(NoUserMessage)
            /\ calls' = Append(calls, NewCall("done"))
    /\ last' = <<"needsUserTrigger", Len(calls) + 1>>
    /\ UNCHANGED authUser
    /\ NeedsUserFrame

\* the vendor call resolved; deleteUser leaves no user signed in
NeedsUserResolved(c) ==
    /\ op \in NeedsUserOps /\ Awaiting(c, {"vendor"})
    /\ status' = "success"
    /\ calls' = [calls EXCEPT ![c] = [@ EXCEPT !.pc = "done"]]
    /\ authUser' = IF op = "deleteUserAccount" THEN None ELSE authUser
    /\ last' = <<"NeedsUserResolved", c>>
    /\ UNCHANGED error
    /\ NeedsUserFrame

NeedsUserRejected(c) ==
    /\ op \in NeedsUserOps /\ Awaiting(c, {"vendor"})
    /\ Catch(c, RejectMessage, "NeedsUserRejected")
    /\ UNCHANGED authUser
    /\ NeedsUserFrame

----------------------------------------------------------------------------
(* docData / collectionData *)

DocSnapshot(k, doc, meta) ==
    /\ op = "docData"
    /\ Listening(k)
    /\ data' = doc
    /\ metadata' = IF doc # None THEN Some(meta) ELSE None
    /\ status' = "success"
    /\ error' = None
    /\ last' = <<"DocSnapshot", k>>
    /\ UNCHANGED <<op, configured, configVars, pairVars, chatVars, thrown,
                   hasMore, progress, streamData, uploadTask, tasks, queue,
                   calls, destroyed, user, loading, userState, authUser,
                   subs>>

\* an error observer that left the metadata of the last snapshot in place
SnapshotErrorKeepsMetadata(k, name, empty) ==
    /\ Listening(k)
    /\ status' = "error"
    /\ error' = Some(ListenerMessage)
    /\ data' = empty
    /\ subs' = [subs EXCEPT ![k].active = FALSE]
    /\ last' = <<name, k>>
    /\ UNCHANGED <<op, configured, configVars, pairVars, chatVars, thrown,
                   hasMore, progress, streamData, uploadTask, tasks, queue,
                   calls, destroyed, user, loading, userState, authUser,
                   metadata>>

\* the error observer; the vendor ends a listener that failed
SnapshotError(k, name, empty) ==
    /\ Listening(k)
    /\ status' = "error"
    /\ error' = Some(ListenerMessage)
    /\ data' = empty
    /\ metadata' = None
    /\ subs' = [subs EXCEPT ![k].active = FALSE]
    /\ last' = <<name, k>>
    /\ UNCHANGED <<op, configured, configVars, pairVars, chatVars, thrown,
                   hasMore, progress, streamData, uploadTask, tasks, queue,
                   calls, destroyed, user, loading, userState, authUser>>

DocError(k) ==
    /\ op = "docData"
    /\ SnapshotError(k, "DocError", None)

CollectionSnapshot(k, docs, meta) ==
    /\ op = "collectionData"
    /\ Listening(k)
    /\ data' = Some(docs)
    /\ metadata' = Some(meta)
    /\ status' = "success"
    /\ error' = None
    /\ last' = <<"CollectionSnapshot", k>>
    /\ UNCHANGED <<op, configured, configVars, pairVars, chatVars, thrown,
                   hasMore, progress, streamData, uploadTask, tasks, queue,
                   calls, destroyed, user, loading, userState, authUser,
                   subs>>

CollectionError(k) ==
    /\ op = "collectionData"
    /\ SnapshotError(k, "CollectionError", Some(<<>>))

----------------------------------------------------------------------------
(* createUserState / initializeAuth *)

\* the Auth service signs a user in or out and schedules every listener
AuthStateChange(u) ==
    /\ op \in AuthListenerOps \cup NeedsUserOps
    /\ u # authUser
    /\ authUser' = u
    /\ subs' = [k \in DOMAIN subs |-> [subs[k] EXCEPT !.pending = subs[k].active]]
    /\ last' = <<"AuthStateChange", 0>>
    /\ UNCHANGED <<op, configured, configVars, pairVars, chatVars, thrown,
                   data, status, error, hasMore, progress, streamData,
                   uploadTask, tasks, queue, calls, destroyed, metadata, user,
                   loading, userState>>

UserStateNext(k) ==
    /\ op = "createUserState"
    /\ Listening(k)
    /\ subs[k].pending
    /\ user' = authUser
    /\ loading' = FALSE
    /\ error' = None
    /\ subs' = [subs EXCEPT ![k].pending = FALSE]
    /\ last' = <<"UserStateNext", k>>
    /\ UNCHANGED <<op, configured, configVars, pairVars, chatVars, thrown,
                   data, status, hasMore, progress, streamData, uploadTask,
                   tasks, queue, calls, destroyed, metadata, userState,
                   authUser>>

\* an error observer that also drops the user
UserStateErrorClearsUser(k) ==
    /\ op = "createUserState"
    /\ Listening(k)
    /\ error' = Some(ListenerMessage)
    /\ loading' = FALSE
    /\ user' = None
    /\ last' = <<"UserStateError", k>>
    /\ UNCHANGED <<op, configured, configVars, pairVars, chatVars, thrown,
                   data, status, hasMore, progress, streamData, uploadTask,
                   tasks, queue, calls, destroyed, metadata, userState,
                   authUser, subs>>

UserStateError(k) ==
    /\ op = "createUserState"
    /\ Listening(k)
    /\ error' = Some(ListenerMessage)
    /\ loading' = FALSE
    /\ last' = <<"UserStateError", k>>
    /\ UNCHANGED <<op, configured, configVars, pairVars, chatVars, thrown,
                   data, status, hasMore, progress, streamData, uploadTask,
                   tasks, queue, calls, destroyed, metadata, user, userState,
                   authUser, subs>>

initializeAuth ==
    /\ op = "initializeAuth"
    /\ Len(subs) < MaxInits
    /\ subs' = Append(subs, NewSub(TRUE))
    /\ last' = <<"initializeAuth", Len(subs) + 1>>
    /\ UNCHANGED <<op, configured, configVars, pairVars, chatVars, thrown,
                   data, status, error, hasMore, progress, streamData,
                   uploadTask, tasks, queue, calls, destroyed, metadata, user,
                   loading, userState, authUser>>

\* a listener that never takes isAuthenticated back
InitializeAuthNextKeepsFlag(k) ==
    /\ op = "initializeAuth"
    /\ Listening(k)
    /\ subs[k].pending
    /\ userState' = [currentUser |-> authUser, isAuthenticated |-> userState.isAuthenticated \/ authUser # None,
                     isLoading |-> FALSE]
    /\ subs' = [subs EXCEPT ![k].pending = FALSE]
    /\ last' = <<"InitializeAuthNext", k>>
    /\ UNCHANGED <<op, configured, configVars, pairVars, chatVars, thrown,
                   data, status, error, hasMore, progress, streamData,
                   uploadTask, tasks, queue, calls, destroyed, metadata, user,
                   loading, authUser>>

InitializeAuthNext(k) ==
    /\ op = "initializeAuth"
    /\ Listening(k)
    /\ subs[k].pending
    /\ userState' = [currentUser |-> authUser, isAuthenticated |-> authUser # None,
                     isLoading |-> FALSE]
    /\ subs' = [subs EXCEPT ![k].pending = FALSE]
    /\ last' = <<"InitializeAuthNext", k>>
    /\ UNCHANGED <<op, configured, configVars, pairVars, chatVars, thrown,
                   data, status, error, hasMore, progress, streamData,
                   uploadTask, tasks, queue, calls, destroyed, metadata, user,
                   loading, authUser>>

\* the DestroyRef of the scope that registered listener k fires
listenerOnDestroyKeepsListening(k) ==
    /\ op \in ListenerOps
    /\ k \in DOMAIN subs
    /\ ~subs[k].destroyed
    /\ subs' = [subs EXCEPT ![k].destroyed = TRUE]
    /\ last' = <<"listenerOnDestroy", k>>
    /\ UNCHANGED <<op, configured, configVars, pairVars, chatVars, thrown,
                   data, status, error, hasMore, progress, streamData,
                   uploadTask, tasks, queue, calls, destroyed, metadata, user,
                   loading, userState, authUser>>

listenerOnDestroy(k) ==
    /\ op \in ListenerOps
    /\ k \in DOMAIN subs
    /\ ~subs[k].destroyed
    /\ subs' = [subs EXCEPT ![k] = [Unsubscribe(@) EXCEPT !.destroyed = TRUE]]
    /\ last' = <<"listenerOnDestroy", k>>
    /\ UNCHANGED <<op, configured, configVars, pairVars, chatVars, thrown,
                   data, status, error, hasMore, progress, streamData,
                   uploadTask, tasks, queue, calls, destroyed, metadata, user,
                   loading, userState, authUser>>

----------------------------------------------------------------------------
Next ==
    \/ startUpload
    \/ startUploadThrows
    \/ \E i \in 1..MaxTasks : VendorProgress(i)
    \/ \E i \in 1..MaxTasks : VendorFail(i)
    \/ \E i \in 1..MaxTasks : VendorFinish(i)
    \/ OnSnapshot
    \/ OnError
    \/ OnComplete
    \/ \E i \in 1..MaxTasks, u \in URLs : UrlResolved(i, u)
    \/ \E i \in 1..MaxTasks : UrlRejected(i)
    \/ pause
    \/ resume
    \/ cancel
    \/ onDestroy
    \/ download
    \/ \E c \in 1..MaxCalls, u \in URLs : DownloadURLResolved(c, u)
    \/ \E c \in 1..MaxCalls : DownloadMetadataResolved(c)
    \/ \E c \in 1..MaxCalls : DownloadRejected(c)
    \/ list
    \/ \E c \in 1..MaxCalls, n \in 0..MaxItems, p \in PrefixCounts : ListAllResolved(c, n, p)
    \/ \E c \in 1..MaxCalls : ListItemFetched(c)
    \/ \E c \in 1..MaxCalls : ListItemSkipped(c)
    \/ \E c \in 1..MaxCalls : ListRejected(c)
    \/ deleteFile
    \/ \E c \in 1..MaxCalls : DeleteResolved(c)
    \/ \E c \in 1..MaxCalls : DeleteRejected(c)
    \/ signIn
    \/ \E c \in 1..MaxCalls : SignInResolved(c)
    \/ \E c \in 1..MaxCalls : SignInRejected(c)
    \/ generateNotConfigured
    \/ generateTextGenerate
    \/ \E c \in 1..MaxCalls, t \in Texts : GenerateContentResolved(c, t)
    \/ \E c \in 1..MaxCalls : GenerateResponseResolved(c)
    \/ \E c \in 1..MaxCalls : GenerateRejected(c)
    \/ generateTextStreamGenerate
    \/ \E c \in 1..MaxCalls : StreamOpened(c)
    \/ \E c \in 1..MaxCalls : StreamChunk(c)
    \/ \E c \in 1..MaxCalls : StreamEnded(c)
    \/ \E c \in 1..MaxCalls : StreamResponseResolved(c)
    \/ \E c \in 1..MaxCalls : StreamRejected(c)
    \/ sendMessageNotConfigured
    \/ sendMessage
    \/ \E c \in 1..MaxCalls : SendMessageResolved(c)
    \/ \E c \in 1..MaxCalls : SendResponseResolved(c)
    \/ \E c \in 1..MaxCalls : SendRejected(c)
    \/ clearHistory
    \/ helperNotConfigured
    \/ \E d \in BOOLEAN : helperCall(d)
    \/ \E c \in 1..MaxCalls : HelperResolved(c)
    \/ \E c \in 1..MaxCalls : HelperRejected(c)
    \/ validateFirebaseConfig
    \/ needsUserTrigger
    \/ \E c \in 1..MaxCalls : NeedsUserResolved(c)
    \/ \E c \in 1..MaxCalls : NeedsUserRejected(c)
    \/ batchNotConfigured
    \/ \E ps \in PromptLists : generateBatch(ps)
    \/ \E c \in 1..MaxCalls : BatchContentResolved(c)
    \/ \E c \in 1..MaxCalls, u \in UsageMetadata : BatchResponseResolved(c, u)
    \/ \E c \in 1..MaxCalls : BatchRejected(c)
    \/ \E i \in Instances : PairStartUpload(i)
    \/ \E i \in Instances, st \in {"running", "paused"} : PairOnSnapshot(i, st)
    \/ \E i \in Instances : PairOnError(i)
    \/ \E i \in Instances, u \in URLs : PairUrlResolved(i, u)
    \/ \E i \in Instances : PairCancel(i)
    \/ \E k \in 1..MaxInits, d \in {None} \cup {Some(x) : x \in Docs}, m \in Metas : DocSnapshot(k, d, m)
    \/ \E k \in 1..MaxInits : DocError(k)
    \/ \E k \in 1..MaxInits, ds \in DocLists, m \in Metas : CollectionSnapshot(k, ds, m)
    \/ \E k \in 1..MaxInits : CollectionError(k)
    \/ \E u \in AuthUsers : AuthStateChange(u)
    \/ \E k \in 1..MaxInits : UserStateNext(k)
    \/ \E k \in 1..MaxInits : UserStateError(k)
    \/ initializeAuth
    \/ \E k \in 1..MaxInits : InitializeAuthNext(k)
    \/ \E k \in 1..MaxInits : listenerOnDestroy(k)

Spec == Init /\ [][Next]_vars

----------------------------------------------------------------------------
(* Properties *)

Callbacks == {"OnSnapshot", "OnError", "OnComplete", "UrlResolved", "UrlRejected"}

Triggers == {"startUpload", "download", "list", "deleteFile", "signIn",
             "generateTextGenerate", "generateTextStreamGenerate",
             "generateNotConfigured"}

\* C1: once an upload's status is success, error or cancelled, no vendor
\* callback (snapshot, error, completion, download-URL settlement) changes
\* status, data or error.
C1_TerminalImmutable ==
    [][(op = "upload" /\ status \in Terminal /\ last'[1] \in Callbacks)
        => (status' = status /\ data' = data /\ error' = error)]_vars

\* C2: cancel() on a loading upload leaves status cancelled at once, and a
\* completion callback or download-URL resolution after the cancel changes
\* neither status nor data.
C2_CancelBeatsCompletion ==
    [][/\ (op = "upload" /\ status = "loading" /\ last'[1] = "cancel")
            => status' = "cancelled"
       /\ (op = "upload" /\ status = "cancelled" /\ last'[1] \in {"OnComplete", "UrlResolved"})
            => (status' = "cancelled" /\ data' = data)]_vars

\* C3: when the vendor reports a caller's cancel() through the error
\* callback, status stays cancelled and error stays as it was; the
\* cancellation is not turned into status error with a message.
C3_CancelIsNotAnError ==
    [][(/\ op = "upload" /\ status = "cancelled" /\ last'[1] = "OnError"
        /\ Head(queue).message = CanceledMessage)
        => (status' = "cancelled" /\ error' = error)]_vars

\* C4: calling the start function again while status is loading or
\* streaming is a no-op: no second upload task or vendor request is made.
C4_StartIdempotent ==
    [][(status \in {"loading", "streaming"} /\ last'[1] \in Triggers)
        => (tasks' = tasks /\ calls' = calls)]_vars

C6_ValueErrorExclusive ==
    op \in {"upload", "download", "generateText", "generateTextStream"} =>
        /\ status = "success" => (data # None /\ error = None)
        /\ status = "error" => (error # None /\ data = None)
        /\ status = "idle" => (data = None /\ error = None)

\* C7: error is non-null only while status is error.
C7_ErrorOnlyInErrorState ==
    error # None => status = "error"

\* C8: an upload's progress is non-null only while status is loading or
\* paused.
C8_ProgressOnlyWhileRunning ==
    (op = "upload" /\ progress # None) => status \in {"loading", "paused"}

\* C9: every transition of status into loading or streaming leaves error
\* null.
C9_RunningClearsError ==
    [][(status' \in {"loading", "streaming"} /\ status' # status) => error' = None]_vars

\* C10: after the owning scope of an upload is destroyed, no vendor callback
\* changes data, status, error or progress.
C10_NoMutationAfterDestroy ==
    [][(op = "upload" /\ destroyed /\ last'[1] \in Callbacks)
        => UNCHANGED <<data, status, error, progress>>]_vars

ListenerCallbacks == {"DocSnapshot", "DocError", "CollectionSnapshot", "CollectionError",
                      "UserStateNext", "UserStateError", "InitializeAuthNext"}

\* C11: a listener-based operation (docData, collectionData, createUserState,
\* initializeAuth) invokes the unsubscribe handle of each listener exactly
\* once, when the scope that registered it is destroyed and not before, and
\* no observer callback of a listener runs after its handle was invoked.
C11_UnsubscribeOnceAtDestroy ==
    [][/\ \A k \in DOMAIN subs' :
            subs'[k].unsubs = IF subs'[k].destroyed THEN 1 ELSE 0
       /\ last'[1] \in ListenerCallbacks => subs[last'[2]].unsubs = 0
       /\ (subs # <<>> /\ \A k \in DOMAIN subs : subs[k].unsubs > 0)
            => UNCHANGED <<data, status, error, metadata, user, loading, userState>>]_vars

C11_Witness ==
    /\ op = "docData"
    /\ status = "success"
    /\ data # None
    /\ subs[1].destroyed
    /\ subs[1].unsubs = 1

\* C12: uploadFile.startUpload() never passes an exception to its caller.
C12_StartNeverThrows ==
    op = "upload" => thrown = None

Rejections == {"DownloadRejected", "ListRejected", "DeleteRejected", "SignInRejected",
               "GenerateRejected", "StreamRejected", "SendRejected"}

\* C13: when a vendor call of an async trigger fails, the trigger's promise
\* does not reject: nothing is passed to the caller.
C13_TriggerNeverRejects ==
    [][last'[1] \in Rejections => thrown' = None]_vars

Failures == Rejections \cup {"OnError", "UrlRejected"}

\* the message of the vendor error a failure step handles
FailureMessage ==
    CASE last'[1] = "OnError" -> Head(queue).message
      [] last'[1] = "UrlRejected" -> TransportMessage
      [] OTHER -> RejectMessage

\* C14: when the vendor call of the only attempt of an operation fails with
\* message X, the failure handler leaves status error, error = X and data at
\* the value it was created with.
C14_FirstFailureSurfaces ==
    [][(last'[1] \in Failures /\ Len(calls') <= 1 /\ Len(tasks') <= 1)
        => /\ status' = "error"
           /\ error' = Some(FailureMessage)
           /\ data' = InitialData]_vars

C14_Witness ==
    /\ last[1] = "DownloadRejected"
    /\ Len(calls) = 1
    /\ status = "error"
    /\ error = Some(RejectMessage)
    /\ data = None

\* call c of list() runs its last statement in this step
ListEnds(c) ==
    /\ last'[1] \in {"ListAllResolved", "ListItemFetched", "ListItemSkipped"}
    /\ last'[2] = c
    /\ calls'[c].pc = "done"

\* the enumerated items of call c whose metadata and URL were both fetched:
\* those fetched before this step and the current one if this step fetched it
FetchedItems(c) ==
    LET got == calls[c].fetched \cup
                 (IF last'[1] = "ListItemFetched" THEN {Head(calls[c].items)} ELSE {})
    IN SelectSeq(Items(calls[c].listed), LAMBDA i : i \in got)

\* C15: a list() call whose enumeration succeeded ends with status success,
\* data.files = the items whose detail fetches succeeded, in enumeration
\* order, and error null; status becomes error only when listAll rejects.
C15_ListPartialSuccess ==
    [][/\ \A c \in DOMAIN calls :
            (op = "list" /\ ListEnds(c))
                => /\ status' = "success"
                   /\ data'[1].files = FetchedItems(c)
                   /\ error' = None
       /\ (op = "list" /\ status' = "error" /\ status # "error")
            => last'[1] = "ListRejected"]_vars

\* C16: the snapshot handler applies each snapshot as it is delivered:
\* progress becomes that snapshot with percentage = bytesTransferred * 100 /
\* totalBytes, no snapshot of a task carries fewer bytes than one applied
\* before it, and every byte count up to the total (50 and 100 percent of a
\* two-unit file) has been applied when the upload's status becomes success.
C16_ProgressInDeliveryOrder ==
    [][/\ last'[1] = "OnSnapshot" =>
             LET snapshot == Head(queue) IN
               /\ progress' = Some([bytesTransferred |-> snapshot.bytes,
                                    totalBytes |-> TotalBytes,
                                    percentage |-> (snapshot.bytes * 100) \div TotalBytes])
               /\ \A b \in tasks[snapshot.task].seen : b <= snapshot.bytes
       /\ last'[1] = "UrlResolved" => 1..TotalBytes \subseteq tasks[last'[2]].seen]_vars

C16_Witness ==
    /\ last = <<"UrlResolved", 1>>
    /\ status = "success"
    /\ tasks[1].seen = 1..TotalBytes
    /\ progress = None

IsPrefix(a, b) == Len(a) <= Len(b) /\ SubSeq(b, 1, Len(a)) = a

\* C17: while the status of generateTextStream is streaming, every new value
\* of streamData extends the previous one.
C17_StreamPrefixMonotonic ==
    [][(op = "generateTextStream" /\ status = "streaming" /\ status' \in {"streaming", "success"})
        => IsPrefix(streamData, streamData')]_vars

\* a snapshot reporting `state` is scheduled for the upload's observer
Scheduled(q, state) ==
    \E n \in 1..Len(q) : q[n].kind = "next" /\ q[n].state = state

\* C18: status becomes paused only through a snapshot that reports a pause;
\* and, for an upload started at most once, with no notification waiting to
\* be delivered and no exception thrown by the start, pause() at status
\* loading makes the task report paused, resume() at status paused makes it
\* report running, and pause() and resume() at any other status make it
\* report nothing.
C18_PauseResumeMoveStatus ==
    [][/\ (status' = "paused" /\ status # "paused")
            => last'[1] = "OnSnapshot" /\ Head(queue).state = "paused"
       /\ (op = "upload" /\ thrown = None /\ Len(tasks) <= 1 /\ queue = <<>>)
            => /\ (last'[1] = "pause" /\ status = "loading") => Scheduled(queue', "paused")
               /\ (last'[1] = "resume" /\ status = "paused") => Scheduled(queue', "running")
               /\ (last'[1] = "pause" /\ status # "loading") => queue' = queue
               /\ (last'[1] = "resume" /\ status # "paused") => queue' = queue]_vars

\* C19: cancel() called at a status other than loading or paused leaves
\* status, data, error and progress unchanged.
C19_CancelOnlyWhileRunning ==
    [][(last'[1] = "cancel" /\ status \notin {"loading", "paused"})
        => UNCHANGED <<status, data, error, progress>>]_vars

AIOps == {"generateText", "generateTextStream"} \cup ChatOps

\* C20: an AI operation built without the Google AI service has status error
\* with error populated, after construction and after every generate() or
\* sendMessage(); it never calls the vendor model and throws nothing.
C20_NotConfiguredIsError ==
    (op \in AIOps /\ ~configured)
        => /\ status = "error"
           /\ error # None
           /\ \A c \in DOMAIN calls : calls[c].pc = "done"
           /\ thrown = None

\* the auth-state listeners currently registered with the vendor
Registered == {k \in DOMAIN subs : subs[k].active}

\* C21: however often initializeAuth() is called, at most one auth-state
\* listener is registered at any time.
C21_SingleListener ==
    op = "initializeAuth" => Cardinality(Registered) <= 1

\* C22: once initializeAuth() has been called, every later change of the
\* signed-in user is notified to a listener that writes userState, whether
\* or not the calling scope has been destroyed.
C22_UserStateOutlivesScope ==
    [][(op = "initializeAuth" /\ subs # <<>> /\ last'[1] = "AuthStateChange")
        => \E k \in DOMAIN subs' : subs'[k].active /\ subs'[k].pending]_vars

OneShotOps == {"download", "list", "deleteFile", "signIn", "generateText",
               "generateTextStream"} \cup ChatOps

\* the vendor has fired the task's error callback, or its completion
\* callback and the download-URL lookup has settled
TaskSettled(t) ==
    \/ t.vstate \in {"error", "canceled"}
    \/ t.vstate = "success" /\ t.url = "settled"

\* the operation was started and all its vendor work has settled, every
\* callback delivered
Settled ==
    /\ configured
    /\ queue = <<>>
    /\ \A i \in DOMAIN tasks : TaskSettled(tasks[i])
    /\ \A c \in DOMAIN calls : calls[c].pc = "done"
    /\ \/ op = "upload" /\ tasks # <<>>
       \/ op \in OneShotOps /\ calls # <<>>

\* C23: once the vendor work of a started operation has settled, status is
\* success, error or cancelled (idle after clearHistory of the first
\* createChat), never loading, streaming or paused.
C23_SettledIsTerminal ==
    Settled => \/ status \in Terminal
               \/ op = "createChatFirst" /\ status = "idle" /\ last[1] = "clearHistory"

C23_Witness ==
    /\ op = "upload"
    /\ Settled
    /\ last[1] = "UrlRejected"
    /\ status = "error"

PairActions == {"PairStartUpload", "PairOnSnapshot", "PairOnError", "PairUrlResolved",
                "PairCancel"}

C25_HelperErrorPrefixed ==
    [][last'[1] = "HelperRejected"
        => \E e \in {thrown'[1]} : e[1] # "" /\ e[2] = RejectMessage]_vars

\* C26: generateBatch resolves with one response per prompt, in prompt
\* order: the response of a prompt whose generation failed is the
\* placeholder (empty text, zero usage) at that prompt's position, the
\* prompts after it are still processed, and no per-prompt failure makes
\* the call reject.
C26_BatchOnePerPrompt ==
    (op = "generateBatch" /\ configured) =>
        /\ thrown = None
        /\ \A c \in DOMAIN calls :
              LET b == calls[c] IN
              /\ b.pc # "threw"
              /\ Len(b.results) = b.n - 1
              /\ b.failed \subseteq 1..Len(b.results)
              /\ b.pc = "done" => Len(b.results) = Len(b.prompts)
              /\ \A i \in 1..Len(b.results) :
                    IF i \in b.failed
                    THEN b.results[i] = Placeholder
                    ELSE b.results[i].text = Reply(b.prompts[i])

C26_Witness ==
    /\ op = "generateBatch" /\ configured
    /\ calls # <<>> /\ calls[1].pc = "done"
    /\ calls[1].prompts = <<"p1", "p2">>
    /\ calls[1].failed = {1}
    /\ calls[1].results[1] = Placeholder
    /\ calls[1].results[2].text = Reply("p2")

\* C27: validateFirebaseConfig returns one "<field> is required" message
\* for each of the six required fields that is missing or empty, in the
\* order of the fields, and nothing for an optional field, except the
\* message about googleAI given without an apiKey in the variant that knows
\* googleAI; so without that message the list is empty exactly when all six
\* required fields are present and non-empty.
C27_ValidateListsMissingFields ==
    last[1] = "validateFirebaseConfig" =>
        LET missing == SelectSeq(RequiredFields,
                                 LAMBDA f : config[f] \in {None, Some("")})
            required == [i \in 1..Len(missing) |-> Text(missing[i], " is required")]
            optional == IF /\ op = "validateFirebaseConfigAI"
                           /\ config.googleAI \in {Some(None), Some(Some(""))}
                        THEN <<GoogleAIRequired>> ELSE <<>>
        IN  /\ errors = required \o optional
            /\ optional = <<>> => (errors = <<>> <=> missing = <<>>)

C27_Witness ==
    /\ op = "validateFirebaseConfigAI" /\ last[1] = "validateFirebaseConfig"
    /\ config.apiKey = Some("") /\ config.projectId = None
    /\ config.measurementId = None /\ config.googleAI = Some(Some("x"))
    /\ errors = <<Text("apiKey", " is required"), Text("projectId", " is required")>>

\* C28: docData and collectionData are never idle; with status success the
\* error is null; with status error the error is set, metadata is null and
\* data is null (docData) or the empty list (collectionData); and after a
\* snapshot of a document that does not exist, which carries no metadata,
\* status is success and data is null.
C28_ListenerSignalsConsistent ==
    op \in {"docData", "collectionData"} =>
        /\ status \in {"loading", "success", "error"}
        /\ status = "loading" => last[1] \in {"init", "listenerOnDestroy"}
        /\ status = "success" => error = None
        /\ status = "error" =>
              /\ error # None
              /\ metadata = None
              /\ data = IF op = "docData" THEN None ELSE Some(<<>>)
        /\ (op = "docData" /\ last[1] = "DocSnapshot" /\ metadata = None) =>
              status = "success" /\ data = None

C28_Witness ==
    /\ op = "collectionData" /\ last[1] = "CollectionError"
    /\ status = "error" /\ error = Some(ListenerMessage)
    /\ data = Some(<<>>) /\ metadata = None

RetriggerOps == {"download", "list", "generateText"}

\* C29: when a one-shot trigger was called again while an earlier call was
\* in flight, status, data and error after both have settled are those of
\* the call started last: an earlier call that settles after the call
\* started last has settled leaves the three signals as they are.
C29_LastStartedWins ==
    [][\A c \in DOMAIN calls :
          (/\ op \in RetriggerOps
           /\ c < Len(calls) /\ calls[Len(calls)].pc = "done"
           /\ calls[c].pc # "done" /\ calls'[c].pc = "done")
          => UNCHANGED <<status, data, error>>]_vars

\* the history a chat is created with
InitialHistory ==
    CASE op = "createChatFirst" -> <<Message("model", SystemText)>>
      [] op = "createChat" /\ configured /\ systemPrompt # None ->
            <<Message("system", SystemText)>>
      [] OTHER -> <<>>

\* the calls whose user message a clearHistory() has removed since
Cleared == {c \in DOMAIN calls :
               \A i \in DOMAIN messages : messages[i] # Message("user", UserText(c))}

\* C30: clearHistory() leaves messages equal to the initial history, and
\* when the reply to a message sent before the clear arrives afterwards (or
\* its send fails), nothing is appended and status does not change.
C30_ClearDropsInFlightReply ==
    [][(op \in ChatOps) =>
          (/\ last'[1] = "clearHistory" => messages' = InitialHistory
           /\ (last'[1] \in {"SendResponseResolved", "SendRejected"}
                    /\ last'[2] \in Cleared)
                 => UNCHANGED <<messages, status>>)]_vars

\* C31: in createChat every step but clearHistory() only appends to
\* messages; the 'model' message a send appends directly follows the 'user'
\* message of that send, however overlapping sends interleave; and a failed
\* send appends nothing.
C31_ReplyFollowsItsMessage ==
    [][(op \in ChatOps /\ last'[1] # "clearHistory") =>
          (/\ IsPrefix(messages, messages')
           /\ \A c \in DOMAIN calls :
                 (last' = <<"SendResponseResolved", c>>) =>
                    /\ messages' = Append(messages, Message("model", ModelText(c)))
                    /\ messages # <<>>
                    /\ messages[Len(messages)] = Message("user", UserText(c))
           /\ last'[1] = "SendRejected" => messages' = messages)]_vars

\* C32: update(), change(), deleteAccount() and send() called while no
\* user is signed in end at once with status error and the error
\* "No user signed in": the call is over without a vendor call in flight,
\* so no later step of that call can set success.
C32_NoUserIsError ==
    [][(op \in NeedsUserOps /\ last'[1] = "needsUserTrigger" /\ authUser = None) =>
          (/\ status' = "error"
           /\ error' = Some(NoUserMessage)
           /\ calls'[last'[2]].pc = "done"
           /\ \A c \in DOMAIN calls : calls'[c] = calls[c])]_vars

C32_Witness ==
    /\ op = "deleteUserAccount" /\ last = <<"needsUserTrigger", 2>>
    /\ authUser = None /\ calls[1].pc = "done" /\ calls[2].pc = "done"
    /\ status = "error" /\ error = Some(NoUserMessage)

\* C33: in userState isAuthenticated is true exactly when currentUser is
\* non-null; isLoading is true in the initial state, false after the first
\* auth-state notification, and once false it stays false; nothing but a
\* notification writes userState.
C33_UserStateConsistent ==
    [][(op = "initializeAuth") =>
          (/\ last[1] = "init" => userState.isLoading /\ ~userState.isAuthenticated
           /\ userState'.isAuthenticated <=> userState'.currentUser # None
           /\ last'[1] = "InitializeAuthNext" => ~userState'.isLoading
           /\ last'[1] # "InitializeAuthNext" => userState' = userState
           /\ ~userState.isLoading => ~userState'.isLoading)]_vars

C33_Witness ==
    /\ op = "initializeAuth" /\ last[1] = "InitializeAuthNext"
    /\ authUser = None /\ userState.currentUser = None
    /\ ~userState.isAuthenticated /\ ~userState.isLoading

\* C34: in createUserState an auth-state notification sets user to the
\* notified user (or null), loading to false and error to null; an error
\* notification sets error to the message and loading to false and leaves
\* user as it is; loading is true at the start, no other step writes it,
\* and once false it stays false.
C34_UserStateNotifications ==
    [][(op = "createUserState") =>
          (/\ last[1] = "init" => loading
           /\ last'[1] = "UserStateNext" =>
                 user' = authUser /\ ~loading' /\ error' = None
           /\ last'[1] = "UserStateError" =>
                 error' = Some(ListenerMessage) /\ ~loading' /\ user' = user
           /\ last'[1] \notin {"UserStateNext", "UserStateError"} =>
                 UNCHANGED <<user, loading, error>>
           /\ ~loading => ~loading')]_vars

C34_Witness ==
    /\ op = "createUserState" /\ last[1] = "UserStateError"
    /\ user # None /\ ~loading /\ error = Some(ListenerMessage)

\* C35: in a run of generateTextStream started by a single generate() call,
\* streamData is emptied when the run starts; when status is success it is
\* the concatenation, in delivery order, of the chunks delivered in the
\* run; and data changes only in the step that sets status to success.
C35_StreamDataIsAllChunks ==
    [][(op = "generateTextStream" /\ configured /\ Len(calls') = 1) =>
          (/\ last'[1] = "generateTextStreamGenerate" => streamData' = <<>>
           /\ status' = "success" =>
                 streamData' = [k \in 1..Len(calls'[1].fullText) |-> ChunkText(1, k)]
           /\ data' # data => (status # "success" /\ status' = "success"))]_vars

C35_Witness ==
    /\ op = "generateTextStream" /\ Len(calls) = 1
    /\ last = <<"StreamResponseResolved", 1>> /\ status = "success"
    /\ streamData = <<ChunkText(1, 1), ChunkText(1, 2)>>
    /\ data = Some(streamData)

\* C36: whenever the status of an upload is success, data holds a file with
\* its download URL; status turns success only in the step in which the
\* download-URL lookup after completion resolved; and when that lookup
\* rejects, status is error and data is as it was.
C36_SuccessCarriesUrl ==
    [][(op = "upload") =>
          (/\ status' = "success" => data' \in {Some(u) : u \in URLs}
           /\ (status # "success" /\ status' = "success") => last'[1] = "UrlResolved"
           /\ last'[1] = "UrlRejected" => status' = "error" /\ data' = data)]_vars

C36_Witness ==
    /\ op = "upload" /\ last = <<"UrlRejected", 2>>
    /\ status = "error" /\ data # None
    /\ tasks[1].url = "settled" /\ tasks[2].url = "settled"

\* startUpload() has not been called on the instance
NeverStarted == tasks = <<>> /\ thrown = None

\* C37: on an upload whose startUpload() was never called, pause(),
\* resume(), cancel() and the destruction of the owning scope leave data,
\* status (idle), error, progress and uploadTask (null) as they are and
\* reach no vendor task.
C37_ControlsBeforeStartAreNoOps ==
    [][(op = "upload" /\ NeverStarted
            /\ last'[1] \in {"pause", "resume", "cancel", "onDestroy"}) =>
          (/\ status = "idle" /\ uploadTask = 0
           /\ UNCHANGED <<data, status, error, progress, uploadTask>>
           /\ UNCHANGED <<tasks, queue>>)]_vars

C37_Witness ==
    /\ op = "upload" /\ NeverStarted /\ last = <<"cancel", 0>>
    /\ status = "idle" /\ uploadTask = 0 /\ progress = None /\ data = None

====
